---- MODULE Spec2Model ----
(***************************************************************************)
(* Crawling core of energia-ai: the proxy manager, the NJT crawl loop      *)
(* (crawl_search_results) and the proxy-retrying crawl() of the Jogtar     *)
(* and Magyar Kozlony crawlers.                                            *)
(***************************************************************************)
EXTENDS Integers, Sequences, FiniteSets, TLC

\* ------------------------------------------------------------------ bounds
MaxProxies == 3
MaxCandidates == 6
MaxRuns == 2
MaxRestarts == 5

\* Longest publication list handed to detect_changes
MaxPubs == 2

\* Most words in a publication title, most legal references of a publication
MaxTitleWords == 2
MaxRefs == 3

\* Most iterations of the monitoring loop
MaxChecks == 3
Proxies == 1..MaxProxies
NoProxy == 0

\* --------------------------------------------------------- program constants
\* document_links[:5]
ProcessLimit == 5
\* return links[:10]
LinkLimit == 10
\* if failure_count > 3
FailureThreshold == 3

VARIABLES
    proxy_list,       \* AdvancedProxyManager.proxies / proxy_list
    failed_proxies,   \* AdvancedProxyManager.failed_proxies
    current_proxy,    \* AdvancedProxyManager.current_proxy (NoProxy = None)
    last_call,        \* the last proxy-manager call and what it returned
    pc,               \* position inside crawl_search_results / crawl
    crawl_statistics, \* NJTCrawler.crawl_statistics
    documents,        \* the local list `documents` of the running invocation
    document_links,   \* the local list `document_links`
    idx,              \* the loop variable i of the per-document loop
    exc,              \* the exception propagating out of the try block
    result,           \* what the caller of the last invocation received
    clock,            \* datetime.now(), a logical clock
    session_proxy,    \* the proxy the open browser context was created with
    listing,          \* outcome of page.goto(base_url) in this invocation
    runs,             \* invocations started on this crawler instance
    last_outcome,     \* outcome of the last per-document step of this run
    consecutive_failures, \* per-document failures since the last success
    error_count,      \* documents of this run that failed with a non-proxy error
    restarts,         \* depth of the recursive crawl() retries
    last_marked,      \* proxy marked failed by the last proxy-error handler
    arg,              \* the argument of a call of one of the pure functions
    ret,              \* what that call returned
    browser,          \* the browser launched by the running invocation
    context,          \* the browser context of the running invocation
    heap_failed,      \* the failed_proxies set objects of the crawler instances
    heap_stats,       \* documents_processed of the crawl_statistics objects
    inst_current,     \* current_proxy of each instance's proxy manager
    actor,            \* the instance and method of the last call
    monitoring_active,      \* MagyarKozlonyMonitor.monitoring_active
    mpc,                    \* position of start_monitoring
    has_notification_config, \* "notification_config" in self.config
    self_previous_publications,  \* MagyarKozlonyMonitor.previous_publications
    notification_queue,     \* NotificationManager._notification_queue
    next_nid,               \* stands for the timestamp in notification_id
    sends,                  \* completed _send_notification calls per notification
    last_check,             \* what the latest check_publications saw and did
    last_send,              \* what the latest send_notifications did
    stop_called,            \* stop_monitoring() was called
    checks_begun_after_stop, \* check_publications calls begun after that
    iteration_errors,       \* iterations that ended in the except branch
    checks                  \* check_publications calls begun

pmvars == <<proxy_list, failed_proxies, current_proxy, last_call>>
runvars == <<pc, crawl_statistics, documents, document_links, idx, exc, result,
             clock, session_proxy, listing, runs, last_outcome,
             consecutive_failures, error_count>>
retryvars == <<restarts, last_marked>>
fnvars == <<arg, ret>>
sessionvars == <<browser, context>>
pairvars == <<heap_failed, heap_stats, inst_current, actor>>
monvars == <<monitoring_active, mpc, has_notification_config,
             self_previous_publications, notification_queue, next_nid, sends,
             last_check, last_send, stop_called, checks_begun_after_stop,
             iteration_errors, checks>>
extvars == <<sessionvars, pairvars, monvars>>
vars == <<pmvars, runvars, retryvars, fnvars, extvars>>

Min(a, b) == IF a < b THEN a ELSE b
Take(s, k) == SubSeq(s, 1, Min(k, Len(s)))

\* ------------------------------------------------------- AdvancedProxyManager
\* A plausible slip: the failed set is not consulted.
active_proxies_unfiltered(ps, failed) == ps

\* [p for p in self.proxies if p not in self.failed_proxies]
active_proxies(ps, failed) == {p \in ps : p \notin failed}

\* __init__: empty failed set, no current proxy
ProxyManagerInit ==
    /\ proxy_list \in SUBSET Proxies
    /\ failed_proxies = {}
    /\ current_proxy = NoProxy
    /\ last_call = [op |-> "init", arg |-> NoProxy, result |-> NoProxy]

\* get_next_proxy(): random.choice over the active proxies, None when empty
GetNextProxy ==
    LET active == active_proxies(proxy_list, failed_proxies) IN
    /\ IF active = {}
       THEN /\ last_call' = [op |-> "get", arg |-> NoProxy, result |-> NoProxy]
            /\ UNCHANGED current_proxy
       ELSE \E p \in active :
               /\ current_proxy' = p
               /\ last_call' = [op |-> "get", arg |-> NoProxy, result |-> p]
    /\ UNCHANGED <<proxy_list, failed_proxies>>

\* mark_proxy_failed(proxy): any string may be passed, configured or not
MarkProxyFailed(p) ==
    /\ failed_proxies' = failed_proxies \cup {p}
    /\ last_call' = [op |-> "mark", arg |-> p, result |-> NoProxy]
    /\ UNCHANGED <<proxy_list, current_proxy>>

\* reset_failed_proxies()
ResetFailedProxies ==
    /\ failed_proxies' = {}
    /\ last_call' = [op |-> "reset", arg |-> NoProxy, result |-> NoProxy]
    /\ UNCHANGED <<proxy_list, current_proxy>>

\* ------------------------------------------------------------------ NJTCrawler
NoTime == 0
NoDuration == 0
NoResult == [kind |-> "none", docs |-> <<>>, error |-> "none"]

DocOutcomes == {"ok", "error", "proxy_error", "no_title", "cancelled"}

\* NJTCrawler.__init__: zeroed statistics; a proxy manager only when a
\* non-empty proxy list was given
CrawlerInit ==
    /\ pc = "idle"
    /\ crawl_statistics = [documents_found |-> 0, documents_processed |-> 0,
                           documents_updated |-> 0, errors |-> 0,
                           start_time |-> NoTime, end_time |-> NoTime,
                           duration_seconds |-> NoDuration]
    /\ documents = <<>>
    /\ document_links = <<>>
    /\ idx = 0
    /\ exc = "none"
    /\ result = NoResult
    /\ clock = 0
    /\ session_proxy = NoProxy
    /\ listing = "pending"
    /\ runs = 0
    /\ last_outcome = "none"
    /\ consecutive_failures = 0
    /\ error_count = 0

RetryInit ==
    /\ restarts = 0
    /\ last_marked = NoProxy

\* no pure-function call is in progress
NoArg == [fn |-> "none"]
NoRet == [fn |-> "none"]
FnIdle ==
    /\ arg = NoArg
    /\ ret = NoRet

\* no browser was launched
SessionIdle ==
    /\ browser = "none"
    /\ context = "none"

\* two crawler instances, as two concurrent tasks would hold them
Instances == {1, 2}

\* __init__ of both instances: each builds its own set() and its own
\* statistics dictionary
PairInit ==
    /\ heap_failed = [c \in Instances |-> {}]
    /\ heap_stats = [c \in Instances |-> 0]
    /\ inst_current = [i \in Instances |-> NoProxy]
    /\ actor = [inst |-> 0, op |-> "init"]

\* most notifications the bounded loop can create
MaxNotifs == MaxChecks * MaxPubs

NoCheck ==
    [completed |-> FALSE, seen_before |-> <<>>, current_seen |-> <<>>,
     changes |-> <<>>, pending_before |-> 0, attempts |-> 0]

NoSend ==
    [ran |-> FALSE, attempted |-> {}, succeeded |-> {}, failed |-> {},
     already_sent |-> {}, returned |-> 0]

\* MagyarKozlonyMonitor.__init__ and NotificationManager.__init__
MonitorFields ==
    /\ monitoring_active = FALSE
    /\ mpc = "not_started"
    /\ self_previous_publications = <<>>
    /\ notification_queue = <<>>
    /\ next_nid = 1
    /\ sends = [n \in 1..MaxNotifs |-> 0]
    /\ last_check = NoCheck
    /\ last_send = NoSend
    /\ stop_called = FALSE
    /\ checks_begun_after_stop = 0
    /\ iteration_errors = 0
    /\ checks = 0

\* a monitor built with the default configuration
MonitorIdle ==
    /\ MonitorFields
    /\ has_notification_config = TRUE

ExtIdle ==
    /\ SessionIdle
    /\ PairInit
    /\ MonitorIdle

\* self.proxy_manager = AdvancedProxyManager(proxy_list) if proxy_list else None
has_proxy_manager == proxy_list # {}

\* proxy = self.proxy_manager.get_next_proxy() if self.proxy_manager else None
ConfigureProxy ==
    IF has_proxy_manager
    THEN /\ GetNextProxy
         /\ session_proxy' = last_call'.result
    ELSE /\ UNCHANGED pmvars
         /\ session_proxy' = NoProxy

\* The exception leaves crawl_search_results: the caller receives no list.
RaiseToCaller(e) ==
    /\ pc' = "idle"
    /\ exc' = e
    /\ result' = [kind |-> "raised", docs |-> <<>>, error |-> e]

\* crawl_search_results, entry: start_time = now, documents = []
Start ==
    /\ pc = "idle"
    /\ runs < MaxRuns
    /\ runs' = runs + 1
    /\ clock' = clock + 1
    /\ crawl_statistics' = [crawl_statistics EXCEPT !.start_time = clock + 1]
    /\ documents' = <<>>
    /\ document_links' = <<>>
    /\ idx' = 0
    /\ exc' = "none"
    /\ result' = NoResult
    /\ session_proxy' = NoProxy
    /\ listing' = "pending"
    /\ last_outcome' = "none"
    /\ consecutive_failures' = 0
    /\ error_count' = 0
    /\ pc' = "setup"
    /\ browser' = "none"
    /\ context' = "none"
    /\ UNCHANGED <<pmvars, retryvars>>
    /\ UNCHANGED <<fnvars, pairvars, monvars>>

\* chromium.launch, _configure_browser_context, context.new_page: all before
\* the try block, so a failure goes straight to the caller and the finally
\* block does not run
Setup ==
    /\ pc = "setup"
    /\ \E r \in {"ok", "launch_fail", "context_fail", "page_fail"} :
          IF r = "launch_fail"
          THEN /\ RaiseToCaller("setup")
               /\ UNCHANGED <<pmvars, session_proxy, browser, context>>
          ELSE /\ ConfigureProxy
               /\ browser' = "open"
               /\ context' = IF r = "context_fail" THEN "none" ELSE "open"
               /\ IF r = "ok"
                  THEN /\ pc' = "list_fetch"
                       /\ UNCHANGED <<exc, result>>
                  ELSE RaiseToCaller("setup")
    /\ UNCHANGED <<crawl_statistics, documents, document_links, idx, clock,
                   listing, runs, last_outcome, consecutive_failures,
                   error_count, retryvars>>
    /\ UNCHANGED <<fnvars, pairvars, monvars>>

\* A plausible slip: the listing failure is logged and swallowed.
list_fetch_swallowed(ok) == FALSE

\* await page.goto(self.base_url, timeout=30000) ... except Exception: raise
list_fetch_raises(ok) == ~ok

\* page.goto(base_url) inside the try block
ListFetch ==
    /\ pc = "list_fetch"
    /\ \E ok \in BOOLEAN :
          /\ listing' = IF ok THEN "ok" ELSE "failed"
          /\ IF list_fetch_raises(ok)
             THEN /\ exc' = "list_fetch"
                  /\ pc' = "finally"
             ELSE /\ exc' = exc
                  /\ pc' = "extract_links"
    /\ UNCHANGED <<pmvars, crawl_statistics, documents, document_links, idx,
                   result, clock, session_proxy, runs, last_outcome,
                   consecutive_failures, error_count, retryvars>>
    /\ UNCHANGED <<fnvars, extvars>>

\* _extract_document_links: c candidate links on the page, identified by
\* their discovery index; any exception is swallowed and gives []
extract_document_links(c, wait_ok) ==
    IF wait_ok THEN Take([k \in 1..c |-> k], LinkLimit) ELSE <<>>

\* document_links = ...; documents_found = len(document_links)
ExtractLinks ==
    /\ pc = "extract_links"
    /\ \E c \in 0..MaxCandidates, wait_ok \in BOOLEAN :
          LET links == extract_document_links(c, wait_ok) IN
          /\ document_links' = links
          /\ crawl_statistics' =
                [crawl_statistics EXCEPT !.documents_found = Len(links)]
          /\ pc' = IF Len(Take(links, ProcessLimit)) = 0 THEN "finally" ELSE "loop"
    /\ idx' = 0
    /\ UNCHANGED <<pmvars, documents, exc, result, clock, session_proxy,
                   listing, runs, last_outcome, consecutive_failures,
                   error_count, retryvars>>
    /\ UNCHANGED <<fnvars, extvars>>

\* A plausible slip: the navigation error is not caught in _process_document.
process_document_propagating(o, link) ==
    IF o = "ok" THEN [kind |-> "record", url |-> link]
    ELSE IF o \in {"error", "proxy_error"} THEN [kind |-> "raise", url |-> 0]
    ELSE IF o = "no_title" THEN [kind |-> "none", url |-> 0]
    ELSE [kind |-> "raise_base", url |-> 0]

\* _process_document: a record; None when navigation raised an Exception
\* (caught, logged) or when the extracted title is empty; CancelledError is
\* a BaseException and passes `except Exception`
process_document(o, link) ==
    IF o = "ok" THEN [kind |-> "record", url |-> link]
    ELSE IF o \in {"error", "proxy_error"} THEN [kind |-> "none", url |-> 0]
    ELSE IF o = "no_title" THEN [kind |-> "none", url |-> 0]
    ELSE [kind |-> "raise_base", url |-> 0]

\* A plausible slip: the newest record is put in front.
emit_front(docs, rec) == <<rec>> \o docs

\* documents.append(document)
emit(docs, rec) == Append(docs, rec)

\* one iteration of `for i, link in enumerate(document_links[:5])`
ProcessDocumentStep ==
    /\ pc = "loop"
    /\ idx < Len(Take(document_links, ProcessLimit))
    /\ \E o \in DocOutcomes, pause_cancelled \in BOOLEAN :
          LET link == document_links[idx + 1]
              r == process_document(o, link)
              \* if i < len(document_links) - 1: medium_pause()
              pauses == r.kind \in {"record", "none"} /\ idx < Len(document_links) - 1
              cancelled == r.kind = "raise_base" \/ (pauses /\ pause_cancelled)
          IN
          /\ documents' = IF r.kind = "record"
                          THEN emit(documents, r.url) ELSE documents
          /\ crawl_statistics' =
                IF r.kind = "record"
                THEN [crawl_statistics EXCEPT !.documents_processed = @ + 1]
                ELSE IF r.kind = "raise"
                THEN [crawl_statistics EXCEPT !.errors = @ + 1]
                ELSE crawl_statistics
          /\ last_outcome' = o
          /\ consecutive_failures' =
                IF o = "ok" THEN 0
                ELSE IF o = "cancelled" THEN consecutive_failures
                ELSE consecutive_failures + 1
          /\ error_count' = IF o = "error" THEN error_count + 1 ELSE error_count
          /\ idx' = idx + 1
          /\ IF cancelled
             THEN /\ exc' = "cancelled"
                  /\ pc' = "finally"
             ELSE /\ exc' = exc
                  /\ pc' = IF idx + 1 < Len(Take(document_links, ProcessLimit))
                           THEN "loop" ELSE "finally"
    /\ UNCHANGED <<pmvars, document_links, result, clock, session_proxy,
                   listing, runs, retryvars>>
    /\ UNCHANGED <<fnvars, extvars>>

\* await context.close(); await browser.close(): the second call is not
\* reached when the first raises
close_session(close) ==
    [context |-> IF close = "context_close_fail" THEN "open" ELSE "closed",
     browser |-> IF close = "ok" THEN "closed" ELSE "open"]

\* finally: context.close(); browser.close(); then end_time = now and
\* return documents, unless an exception is propagating
Finally ==
    /\ pc = "finally"
    /\ \E close \in {"ok", "context_close_fail", "browser_close_fail"} :
          /\ context' = close_session(close).context
          /\ browser' = close_session(close).browser
          /\ IF close # "ok"
             THEN /\ RaiseToCaller("close")
                  /\ UNCHANGED <<crawl_statistics, clock>>
             ELSE IF exc # "none"
             THEN /\ RaiseToCaller(exc)
                  /\ UNCHANGED <<crawl_statistics, clock>>
             ELSE /\ clock' = clock + 1
                  /\ crawl_statistics' = [crawl_statistics EXCEPT !.end_time = clock + 1]
                  /\ pc' = "idle"
                  /\ exc' = exc
                  /\ result' = [kind |-> "returned", docs |-> documents, error |-> "none"]
    /\ UNCHANGED <<pmvars, documents, document_links, idx, session_proxy,
                   listing, runs, last_outcome, consecutive_failures,
                   error_count, retryvars>>
    /\ UNCHANGED <<fnvars, pairvars, monvars>>

\* get_crawl_statistics: stores duration_seconds when both times are set,
\* returns a copy
get_crawl_statistics(stats) ==
    IF stats.start_time # NoTime /\ stats.end_time # NoTime
    THEN [stats EXCEPT !.duration_seconds = stats.end_time - stats.start_time]
    ELSE stats

GetCrawlStatistics ==
    /\ crawl_statistics' = get_crawl_statistics(crawl_statistics)
    /\ UNCHANGED <<pmvars, pc, documents, document_links, idx, exc, result,
                   clock, session_proxy, listing, runs, last_outcome,
                   consecutive_failures, error_count, retryvars>>
    /\ UNCHANGED <<fnvars, extvars>>

CrawlProxyLists == {{}, Proxies}

CrawlInit ==
    /\ ProxyManagerInit
    /\ proxy_list \in CrawlProxyLists
    /\ CrawlerInit
    /\ RetryInit
    /\ FnIdle
    /\ ExtIdle

CrawlNext ==
    \/ Start
    \/ Setup
    \/ ListFetch
    \/ ExtractLinks
    \/ ProcessDocumentStep
    \/ Finally
    \/ GetCrawlStatistics

SpecCrawl == CrawlInit /\ [][CrawlNext]_vars

\* ------------------------------------- JogtarCrawler / MagyarKozlonyCrawler
\* crawl(), entry from the caller (not a recursive retry)
RetryStart ==
    /\ pc = "idle"
    /\ runs < MaxRuns
    /\ runs' = runs + 1
    /\ restarts' = 0
    /\ last_marked' = NoProxy
    /\ result' = NoResult
    /\ session_proxy' = NoProxy
    /\ pc' = "r_setup"
    /\ UNCHANGED <<pmvars, crawl_statistics, documents, document_links, idx,
                   exc, clock, listing, last_outcome, consecutive_failures,
                   error_count>>
    /\ UNCHANGED <<fnvars, extvars>>

\* the session setup of crawl(): the browser context of BaseCrawler, which
\* asks the proxy manager for the next proxy
RetrySetup ==
    /\ pc = "r_setup"
    /\ ConfigureProxy
    /\ pc' = "r_try"
    /\ UNCHANGED <<crawl_statistics, documents, document_links, idx, exc,
                   result, clock, listing, runs, last_outcome,
                   consecutive_failures, error_count, retryvars>>
    /\ UNCHANGED <<fnvars, extvars>>

\* if self.proxy_manager and self.proxy_manager.current_proxy:
\*     self.proxy_manager.mark_proxy_failed(current_proxy['server'])
ReportProxyFailure ==
    IF has_proxy_manager /\ current_proxy # NoProxy
    THEN /\ MarkProxyFailed(current_proxy)
         /\ last_marked' = current_proxy
    ELSE /\ UNCHANGED pmvars
         /\ last_marked' = NoProxy

\* what the page does during one interaction break: whether the scroll and
\* the pointer move succeed, whether the 30% click is drawn and succeeds
InteractionInputs ==
    [scroll_ok : BOOLEAN, move_ok : BOOLEAN, click : BOOLEAN, click_ok : BOOLEAN]

\* BaseCrawler._human_interaction_break: scroll, pointer move, optional
\* click, pause, with no exception handler around any of them
human_interaction_break(ib) ==
    IF ~ib.scroll_ok THEN "raise"
    ELSE IF ~ib.move_ok THEN "raise"
    ELSE IF ib.click /\ ~ib.click_ok THEN "raise"
    ELSE "ok"

\* the try block of crawl(): it completes, or a PlaywrightError is raised;
\* an error whose text contains "proxy" marks the current proxy failed and
\* re-enters crawl() (return await self.crawl()); any other error is
\* re-raised, also one raised by the interaction break inside the try block
RetryTry ==
    /\ pc = "r_try"
    /\ \E o \in {"ok", "error", "proxy_error"}, ib \in InteractionInputs :
          IF o = "ok" /\ human_interaction_break(ib) = "raise"
          THEN /\ pc' = "idle"
               /\ result' = [kind |-> "raised", docs |-> <<>>, error |-> "interaction"]
               /\ UNCHANGED <<pmvars, retryvars>>
          ELSE IF o = "ok"
          THEN /\ pc' = "idle"
               /\ result' = [kind |-> "returned", docs |-> <<>>, error |-> "none"]
               /\ UNCHANGED <<pmvars, retryvars>>
          ELSE IF o = "error"
          THEN /\ pc' = "idle"
               /\ result' = [kind |-> "raised", docs |-> <<>>, error |-> "fetch"]
               /\ UNCHANGED <<pmvars, retryvars>>
          ELSE /\ restarts < MaxRestarts
               /\ ReportProxyFailure
               /\ restarts' = restarts + 1
               /\ pc' = "r_setup"
               /\ UNCHANGED result
    /\ UNCHANGED <<crawl_statistics, documents, document_links, idx, exc,
                   clock, session_proxy, listing, runs, last_outcome,
                   consecutive_failures, error_count>>
    /\ UNCHANGED <<fnvars, extvars>>

\* the operations of the AdvancedProxyManager that BaseCrawler constructs
\* for its sessions (the class defined in base_crawler.py)
base_manager_methods == {"__init__", "get_next_proxy", "mark_proxy_failed"}

\* a crawler clearing the failed set of its own proxy manager
CrawlerResetFailed ==
    /\ "reset_failed_proxies" \in base_manager_methods
    /\ ResetFailedProxies
    /\ UNCHANGED <<runvars, retryvars, fnvars, extvars>>

RetryCrawlInit ==
    /\ ProxyManagerInit
    /\ CrawlerInit
    /\ RetryInit
    /\ FnIdle
    /\ ExtIdle

RetryNext ==
    \/ RetryStart
    \/ RetrySetup
    \/ RetryTry

SpecRetry == RetryCrawlInit /\ [][RetryNext]_vars

\* ------------------------------------------------- the proxy manager alone
ProxyInit ==
    /\ ProxyManagerInit
    /\ CrawlerInit
    /\ RetryInit
    /\ FnIdle
    /\ ExtIdle

ProxyNext ==
    /\ \/ GetNextProxy
       \/ \E p \in Proxies : MarkProxyFailed(p)
       \/ ResetFailedProxies
    /\ UNCHANGED <<runvars, retryvars, fnvars, extvars>>

SpecProxy == ProxyInit /\ [][ProxyNext]_vars

\* ------------------------------------------- two concurrent crawler instances
\* A plausible slip: failed_proxies is one set shared by all managers (a
\* class attribute or a mutable default).
failed_cell_shared(i) == 1

\* self.failed_proxies = set(): the set object instance i's manager holds
failed_cell(i) == i

\* self.crawl_statistics = {...}: the dictionary instance i holds
stats_cell(i) == i

\* both instances are built from the same static proxy list
available_proxies(i) == {p \in Proxies : p \notin heap_failed[failed_cell(i)]}

\* instance i: self.proxy_manager.get_next_proxy()
InstGetNextProxy(i) ==
    /\ \E p \in available_proxies(i) \cup {NoProxy} :
          /\ (p = NoProxy) = (available_proxies(i) = {})
          /\ inst_current' = IF p = NoProxy THEN inst_current
                             ELSE [inst_current EXCEPT ![i] = p]
    /\ actor' = [inst |-> i, op |-> "get_next_proxy"]
    /\ UNCHANGED <<heap_failed, heap_stats>>

\* instance i: self.proxy_manager.mark_proxy_failed(p)
InstMarkProxyFailed(i, p) ==
    /\ heap_failed' = [heap_failed EXCEPT ![failed_cell(i)] = @ \cup {p}]
    /\ actor' = [inst |-> i, op |-> "mark_proxy_failed"]
    /\ UNCHANGED <<heap_stats, inst_current>>

\* instance i: self.crawl_statistics["documents_processed"] += 1
InstCountDocument(i) ==
    /\ heap_stats[stats_cell(i)] < MaxRuns
    /\ heap_stats' = [heap_stats EXCEPT ![stats_cell(i)] = @ + 1]
    /\ actor' = [inst |-> i, op |-> "documents_processed"]
    /\ UNCHANGED <<heap_failed, inst_current>>

PairSpecInit ==
    /\ ProxyManagerInit
    /\ proxy_list = Proxies
    /\ CrawlerInit
    /\ RetryInit
    /\ FnIdle
    /\ ExtIdle

PairNext ==
    /\ \E i \in Instances :
          \/ InstGetNextProxy(i)
          \/ \E p \in Proxies : InstMarkProxyFailed(i, p)
          \/ InstCountDocument(i)
    /\ UNCHANGED <<pmvars, runvars, retryvars, fnvars, sessionvars, monvars>>

SpecPair == PairSpecInit /\ [][PairNext]_vars

\* ------------------------------------------------------- pure functions
\* Strings that are URIs are modelled as the sequence of their "/"-separated
\* segments ("http://www.njt.hu/eli/hu" is <<"http:", "", "www.njt.hu",
\* "eli", "hu">>); other strings as a sequence of words; "" is <<>>.

\* "http://www.njt.hu/eli"
EliBase == <<"http:", "", "www.njt.hu", "eli">>

\* s.startswith("http://www.njt.hu/eli/"): the base segments and a "/" after
\* them, that is at least one further segment
starts_with_eli_prefix(s) ==
    /\ Len(s) > Len(EliBase)
    /\ SubSeq(s, 1, Len(EliBase)) = EliBase

\* A plausible slip: status is not among the required fields.
required_fields_short == {"eli_uri", "title", "content"}

\* required_fields = ["eli_uri", "title", "content", "status"]
required_fields == {"eli_uri", "title", "content", "status"}

\* validate_eli_compliance(document): a missing or falsy required field
\* gives False, then the prefix of eli_uri decides
validate_eli_compliance(document) ==
    IF \E f \in required_fields : f \notin DOMAIN document \/ document[f] = <<>>
    THEN FALSE
    ELSE starts_with_eli_prefix(document["eli_uri"])

\* sample URIs with the canonical prefix, and strings without it
CanonicalUris ==
    {EliBase \o <<"hu", "torveny", "2023", "XII">>,
     EliBase \o <<"hu", "", "0", "">>,
     EliBase \o <<"">>}
OtherStrings ==
    {EliBase,
     <<"https:", "", "www.njt.hu", "eli", "hu">>,
     <<"http:", "", "www.njt.hu", "elix", "hu">>,
     <<"hatályos">>}
FieldValues == {<<>>} \cup CanonicalUris \cup OtherStrings

\* documents: any subset of the required fields present, each with any value
DocumentInputs ==
    UNION {[present -> FieldValues] :
              present \in SUBSET {"eli_uri", "title", "content", "status"}}

\* ---- ELIIdentifier
\* int(text) and str(number) on the numerals that occur in the samples
int_of(text) ==
    CASE text = "0" -> 0
      [] text = "0000" -> 0
      [] text = "5" -> 5
      [] text = "123" -> 123
      [] text = "1999" -> 1999
      [] text = "2023" -> 2023
      [] text = "12345" -> 12345

str_of(number) ==
    CASE number = 0 -> "0"
      [] number = 5 -> "5"
      [] number = 123 -> "123"
      [] number = 1999 -> "1999"
      [] number = 2023 -> "2023"
      [] number = 12345 -> "12345"

\* ELIIdentifier(): the defaults of the dataclass
ZeroEli ==
    [country |-> "hu", type |-> "", year |-> 0, number |-> "",
     point |-> "", version |-> "", language |-> "hu"]

\* A plausible slip: version is appended before point.
to_uri_version_first(eli) ==
    LET base == EliBase \o <<eli.country, eli.type, str_of(eli.year), eli.number>>
        v == IF eli.version # "" THEN base \o <<eli.version>> ELSE base
        pt == IF eli.point # "" THEN v \o <<eli.point>> ELSE v
    IN  IF eli.language # "hu" THEN pt \o <<eli.language>> ELSE pt

\* ELIIdentifier.to_uri
to_uri(eli) ==
    LET base == EliBase \o <<eli.country, eli.type, str_of(eli.year), eli.number>>
        pt == IF eli.point # "" THEN base \o <<eli.point>> ELSE base
        v == IF eli.version # "" THEN pt \o <<eli.version>> ELSE pt
    IN  IF eli.language # "hu" THEN v \o <<eli.language>> ELSE v

EliInputs ==
    [country : {"hu", "at"}, type : {"", "torveny", "korm.rendelet", "rendelet"},
     year : {0, 2023}, number : {"", "XII", "123"}, point : {"", "1"},
     version : {"", "1.0"}, language : {"hu", "en", ""}]

ToUri ==
    /\ arg.fn = "to_uri"
    /\ ret = NoRet
    /\ ret' = [fn |-> arg.fn, value |-> to_uri(arg.eli)]
    /\ UNCHANGED <<pmvars, runvars, retryvars, arg, extvars>>

\* ---- ELIIdentifier.from_njt_reference
\* A reference is the sequence of its lexical tokens: numerals, words,
\* punctuation marks and single blanks.
Digits4 == {"2023", "0000", "1999"}

Numerals == Digits4 \cup {"5", "123", "12345"}

RomanNumerals == {"I", "XII", "XVIII"}

\* tokens t with "korm" in t.lower()
KormBearing == {"Korm", "KORM", "önkormányzati"}

At(s, i) == IF i \in 1..Len(s) THEN s[i] ELSE ""

RECURSIVE skip_ws(_, _)
\* \s* : the position after the blanks that start at position i
skip_ws(s, i) == IF At(s, i) = " " THEN skip_ws(s, i + 1) ELSE i

RECURSIVE first_index(_, _, _)
\* the first position at or after i that holds tok, 0 if there is none
first_index(s, i, tok) ==
    IF i > Len(s) THEN 0
    ELSE IF s[i] = tok THEN i
    ELSE first_index(s, i + 1, tok)

NoMatch == [matched |-> FALSE]

\* re.match(r'(\d{4})\.\s*évi\s+([IVXLCDM]+)\.\s*törvény', reference)
law_match(reference) ==
    LET a == skip_ws(reference, 3)
        b == skip_ws(reference, a + 1)
        c == skip_ws(reference, b + 2)
    IN  IF /\ At(reference, 1) \in Digits4
           /\ At(reference, 2) = "."
           /\ At(reference, a) = "évi"
           /\ b > a + 1
           /\ At(reference, b) \in RomanNumerals
           /\ At(reference, b + 1) = "."
           /\ At(reference, c) = "törvény"
        THEN [matched |-> TRUE, group1 |-> reference[1], group2 |-> reference[b]]
        ELSE NoMatch

\* re.match(r'(\d+)/(\d{4})\.\s*\([^)]+\)\s*([^.]+)\.\s*rendelet', reference)
decree_match(reference) ==
    LET a == skip_ws(reference, 5)
        c == first_index(reference, a + 1, ")")
        d == first_index(reference, c + 1, ".")
        g == skip_ws(reference, c + 1)
        gs == IF g < d THEN g ELSE d - 1
        m == skip_ws(reference, d + 1)
    IN  IF /\ At(reference, 1) \in Numerals
           /\ At(reference, 2) = "/"
           /\ At(reference, 3) \in Digits4
           /\ At(reference, 4) = "."
           /\ At(reference, a) = "("
           /\ c > a + 1
           /\ d > c + 1
           /\ At(reference, m) = "rendelet"
        THEN [matched |-> TRUE, group1 |-> reference[1], group2 |-> reference[3],
              group3 |-> SubSeq(reference, gs, d - 1)]
        ELSE NoMatch

\* A plausible slip: the issuer is never examined.
decree_type_generic(issuer) == "rendelet"

\* if "korm" in issuer: ... else: ...
decree_type(issuer) ==
    IF \E i \in 1..Len(issuer) : issuer[i] \in KormBearing
    THEN "korm.rendelet"
    ELSE "rendelet"

from_njt_reference(reference) ==
    LET law == law_match(reference)
        decree == decree_match(reference)
    IN  IF law.matched
        THEN [ZeroEli EXCEPT !.year = int_of(law.group1),
                             !.number = law.group2,
                             !.type = "torveny"]
        ELSE IF decree.matched
        THEN [ZeroEli EXCEPT !.number = decree.group1,
                             !.year = int_of(decree.group2),
                             !.type = decree_type(decree.group3)]
        ELSE ZeroEli

\* Sample references
Gaps == {<<>>, <<" ">>, <<" ", " ">>}

Tails == {<<>>, <<" ", "a", " ", "villamos", " ", "energiáról">>}

LawRef(y, g1, g2, r, g3, tail) ==
    <<y, ".">> \o g1 \o <<"évi">> \o g2 \o <<r, ".">> \o g3 \o <<"törvény">> \o tail

Dates == {<<"XII", ".", " ", "31", ".">>, <<"II">>}

Issuers == {<<"Korm">>, <<"KORM">>, <<"AM">>, <<"önkormányzati">>, <<"NGM", " ", "miniszteri">>}

DecreeRef(n, y, g, date, issuer, g2, tail) ==
    <<n, "/", y, ".">> \o g \o <<"(">> \o date \o <<")">> \o g \o issuer
    \o <<".">> \o g2 \o <<"rendelet">> \o tail

\* texts that neither pattern matches
UnmatchedRefs ==
    {<<>>,
     <<"Invalid", " ", "reference">>,
     <<" ">> \o LawRef("2023", <<" ">>, <<" ">>, "XII", <<" ">>, <<>>),
     <<"A", " ">> \o LawRef("2023", <<" ">>, <<" ">>, "XII", <<" ">>, <<>>),
     LawRef("2023", <<" ">>, <<>>, "XII", <<" ">>, <<>>),
     LawRef("2023", <<" ">>, <<" ">>, "xii", <<" ">>, <<>>),
     LawRef("12345", <<" ">>, <<" ">>, "XII", <<" ">>, <<>>),
     LawRef("123", <<" ">>, <<" ">>, "XII", <<" ">>, <<>>),
     <<"2023", " ", "évi", " ", "XII", ".", " ", "törvény">>,
     <<"2023", ".", " ", "évi", " ", "XII", " ", "törvény">>,
     <<"2023", ".", " ", "évi", " ", "XII", ".", " ", "rendelet">>,
     <<"123", "/", "2023", ".", " ", "(", "XII", ".", " ", "31", ".", ")", " ", "Korm", " ", "rendelet">>,
     <<"5", "/", "2023", ".", " ", "(", "II", ")", " ", "AM", " ", "rendelet">>,
     <<"5", "/", "2023", ".", " ", "(", ")", " ", "AM", ".", " ", "rendelet">>,
     <<"5", "/", "2023", ".", " ", "(", "II", ")", ".", " ", "rendelet">>,
     <<"5", "/", "123", ".", " ", "(", "II", ")", " ", "AM", ".", " ", "rendelet">>,
     <<"5", "/", "2023", ".", " ", "(", "II", ")", " ", "AM", ".", " ", "törvény">>,
     <<"/", "2023", ".", " ", "(", "II", ")", " ", "AM", ".", " ", "rendelet">>}

ReferenceInputs ==
    {[fn |-> "from_njt_reference", shape |-> "law", year |-> y, number |-> r,
      issuer |-> <<>>, reference |-> LawRef(y, g1, g2, r, g3, tail)] :
        y \in Digits4, g1 \in Gaps, g2 \in Gaps \ {<<>>}, r \in RomanNumerals,
        g3 \in Gaps, tail \in Tails}
    \cup
    {[fn |-> "from_njt_reference", shape |-> "decree", year |-> y, number |-> n,
      issuer |-> i, reference |-> DecreeRef(n, y, g, dt, i, g2, tail)] :
        y \in Digits4, n \in Numerals, g \in {<<>>, <<" ">>}, dt \in Dates,
        i \in Issuers, g2 \in {<<>>, <<" ">>}, tail \in Tails}
    \cup
    {[fn |-> "from_njt_reference", shape |-> "none", year |-> "0", number |-> "",
      issuer |-> <<>>, reference |-> u] : u \in UnmatchedRefs}

FromNjtReference ==
    /\ arg.fn = "from_njt_reference"
    /\ ret = NoRet
    /\ ret' = [fn |-> arg.fn, value |-> from_njt_reference(arg.reference)]
    /\ UNCHANGED <<pmvars, runvars, retryvars, arg, extvars>>

\* ---- ChangeDetectionEngine.detect_changes
PubIds == {"mk1", "mk2", "mk3"}

Hashes == {"h1", "h2"}

ChangeTypes == {"new", "modified", "deleted"}

\* PublicationItem, reduced to the fields detect_changes reads or writes
PublicationItem(id, hash, tag) ==
    [publication_id |-> id, content_hash |-> hash, change_type |-> tag]

RECURSIVE SeqsUpTo(_, _)
\* the lists over S of length at most n
SeqsUpTo(S, n) ==
    IF n = 0 THEN {<<>>}
    ELSE LET shorter == SeqsUpTo(S, n - 1)
         IN  shorter \cup {Append(q, x) : q \in shorter, x \in S}

RECURSIVE dict_keys(_)
\* keys of {pub.publication_id: pub for pub in pubs}, in insertion order
dict_keys(pubs) ==
    IF pubs = <<>> THEN <<>>
    ELSE LET front == dict_keys(SubSeq(pubs, 1, Len(pubs) - 1))
             k == pubs[Len(pubs)].publication_id
         IN  IF \E i \in 1..Len(front) : front[i] = k THEN front ELSE Append(front, k)

RECURSIVE dict_get(_, _)
\* value of {pub.publication_id: pub for pub in pubs}[k]: the last item wins
dict_get(pubs, k) ==
    IF pubs[Len(pubs)].publication_id = k
    THEN pubs[Len(pubs)]
    ELSE dict_get(SubSeq(pubs, 1, Len(pubs) - 1), k)

\* A plausible slip: every id present in both lists counts as modified.
is_modified_always(current_pub, previous_pub) == TRUE

is_modified(current_pub, previous_pub) ==
    current_pub.content_hash # previous_pub.content_hash

detect_changes(current_publications, previous_publications) ==
    LET ck == dict_keys(current_publications)
        pk == dict_keys(previous_publications)
        in_previous(k) == \E i \in 1..Len(pk) : pk[i] = k
        in_current(k) == \E i \in 1..Len(ck) : ck[i] = k
        is_new(k) == ~in_previous(k)
        is_changed(k) ==
            /\ in_previous(k)
            /\ is_modified(dict_get(current_publications, k),
                           dict_get(previous_publications, k))
        is_gone(k) == ~in_current(k)
        new_ids == SelectSeq(ck, is_new)
        modified_ids == SelectSeq(ck, is_changed)
        deleted_ids == SelectSeq(pk, is_gone)
    IN  [i \in 1..Len(new_ids) |->
            [dict_get(current_publications, new_ids[i]) EXCEPT !.change_type = "new"]]
        \o [i \in 1..Len(modified_ids) |->
            [dict_get(current_publications, modified_ids[i]) EXCEPT !.change_type = "modified"]]
        \o [i \in 1..Len(deleted_ids) |->
            [dict_get(previous_publications, deleted_ids[i]) EXCEPT !.change_type = "deleted"]]

\* current items are freshly built (change_type "new"); previous items carry
\* whatever tag an earlier cycle left on them
PublicationLists(tag) ==
    SeqsUpTo({PublicationItem(id, h, tag) : id \in PubIds, h \in Hashes}, MaxPubs)

DetectChanges ==
    /\ arg.fn = "detect_changes"
    /\ ret = NoRet
    /\ ret' = [fn |-> arg.fn, value |-> detect_changes(arg.current, arg.previous)]
    /\ UNCHANGED <<pmvars, runvars, retryvars, arg, extvars>>

\* ---- NJTCrawler._extract_document_data and _process_document
\* Texts are token sequences, as the references are.
RECURSIVE lstrip(_)
lstrip(t) == IF t # <<>> /\ t[1] = " " THEN lstrip(Tail(t)) ELSE t

RECURSIVE rstrip(_)
rstrip(t) ==
    IF t # <<>> /\ t[Len(t)] = " " THEN rstrip(SubSeq(t, 1, Len(t) - 1)) ELSE t

\* str.strip(), get_text(strip=True)
strip(t) == lstrip(rstrip(t))

\* an element of the parsed page, or None
NoElem == [present |-> FALSE]

Elem(t) == [present |-> TRUE, text |-> t]

SiteName == "Nemzeti Jogszabálytár"

\* t.split("-")[0]
before_dash(t) ==
    LET d == first_index(t, 1, "-")
    IN  IF d = 0 THEN t ELSE SubSeq(t, 1, d - 1)

\* the site-name clean-up of the title text
clean_title(title_text) ==
    IF /\ \E i \in 1..Len(title_text) : title_text[i] = SiteName
       /\ first_index(title_text, 1, "-") # 0
    THEN strip(before_dash(title_text))
    ELSE title_text

\* soup.find("h1") or soup.find("h2") or soup.find("title"): a Tag is truthy
\* whatever its text, so the first element that exists is taken
find_title_element(page) ==
    IF page.h1.present THEN page.h1
    ELSE IF page.h2.present THEN page.h2
    ELSE page.title_tag

url_title(url) == <<"Document from", url>>

\* data["title"] of the try block
extracted_title(page, url) ==
    LET title_element == find_title_element(page)
    IN  IF title_element.present
        THEN clean_title(strip(title_element.text))
        ELSE IF page.page_title # <<>> THEN page.page_title ELSE url_title(url)

\* tokens t with "törvény" in t.lower(), with "rendelet" in t.lower()
LawBearing == {"törvény", "Törvény", "törvények"}

DecreeBearing == {"rendelet", "Rendelet"}

mentions(t, words) == \E i \in 1..Len(t) : t[i] \in words

\* document_content[:5000]
ContentLimit == 5000

\* the classification by title and content; "orszaggyules" stands for the
\* issuer name of the law branch, written here without its long vowels
classification(title, document_content) ==
    IF mentions(title, LawBearing) \/ mentions(document_content, LawBearing)
    THEN [document_type |-> <<"törvény">>, issuer |-> <<"orszaggyules">>,
          status |-> <<"hatályos">>]
    ELSE IF mentions(title, DecreeBearing) \/ mentions(document_content, DecreeBearing)
    THEN [document_type |-> <<"rendelet">>, issuer |-> <<"kormány">>,
          status |-> <<"hatályos">>]
    ELSE [document_type |-> <<"egyéb">>, issuer |-> <<"ismeretlen">>,
          status |-> <<"ismeretlen">>]

\* dict.setdefault over several keys: d wins where it has the key
setdefaults(d, defaults) ==
    [k \in DOMAIN d \cup DOMAIN defaults |->
        IF k \in DOMAIN d THEN d[k] ELSE defaults[k]]

\* A plausible slip: the handler forgets the status placeholder.
minimal_data_without_status(url) ==
    [title |-> url_title(url), content |-> <<>>, document_type |-> <<"egyéb">>,
     issuer |-> <<"ismeretlen">>, subject_areas |-> <<>>,
     citations |-> <<>>, amendments |-> <<>>]

\* the placeholders of the except block
minimal_data(url) ==
    [title |-> url_title(url), content |-> <<>>, document_type |-> <<"egyéb">>,
     issuer |-> <<"ismeretlen">>, status |-> <<"ismeretlen">>,
     subject_areas |-> <<>>, citations |-> <<>>, amendments |-> <<>>]

\* the steps of the try block that can raise, in program order:
\* page.content()/parsing, get_text, page.title(), the body text, the
\* classification
FailurePoints == {"none", "content", "get_text", "page_title", "body", "classify"}

\* _extract_document_data: the dictionary `data` that is returned
extract_document_data(page, url) ==
    LET title_element == find_title_element(page)
        base == [url |-> url]
        title == extracted_title(page, url)
        with_title == setdefaults([title |-> title], base)
        with_content ==
            setdefaults([content |-> Take(page.body, ContentLimit)], with_title)
        complete ==
            setdefaults(setdefaults(classification(title, page.body), with_content),
                        [subject_areas |-> <<>>, citations |-> <<>>,
                         amendments |-> <<>>])
        reached ==
            IF page.fail = "content" THEN base
            ELSE IF page.fail = "get_text" /\ title_element.present THEN base
            ELSE IF page.fail = "page_title" /\ ~title_element.present THEN base
            ELSE IF page.fail = "body" THEN with_title
            ELSE IF page.fail = "classify" THEN with_content
            ELSE complete
    IN  IF reached = complete THEN complete
        ELSE setdefaults(reached, minimal_data(url))

\* A plausible slip: an unresolved identifier gets no URI.
eli_uri_resolved_only(eli_id) == IF eli_id.type = "" THEN <<>> ELSE to_uri(eli_id)

\* "eli_uri": self.eli_id.to_uri()
eli_uri(eli_id) == to_uri(eli_id)

\* document_data.get(key, default)
dict_get_default(d, key, default) == IF key \in DOMAIN d THEN d[key] ELSE default

\* _process_document after the page was fetched: the record of
\* legal_doc.to_dict() (dates, hash and timestamp left out), or None
process_document_data(page, url) ==
    LET document_data == extract_document_data(page, url)
        title == dict_get_default(document_data, "title", <<>>)
    IN  IF title # <<>>
        THEN [kind |-> "record",
              record |->
                [eli_uri |-> eli_uri(from_njt_reference(title)),
                 title |-> title,
                 content |-> dict_get_default(document_data, "content", <<>>),
                 status |-> dict_get_default(document_data, "status", <<"unknown">>),
                 document_type |-> dict_get_default(document_data, "document_type", <<>>),
                 issuer |-> dict_get_default(document_data, "issuer", <<>>),
                 subject_areas |-> dict_get_default(document_data, "subject_areas", <<>>),
                 citations |-> dict_get_default(document_data, "citations", <<>>),
                 amendments |-> dict_get_default(document_data, "amendments", <<>>),
                 url |-> url]]
        ELSE [kind |-> "none"]

\* Sample pages
HeadingTexts ==
    {<<>>, <<" ">>,
     LawRef("2023", <<" ">>, <<" ">>, "XII", <<" ">>, <<>>),
     LawRef("2023", <<" ">>, <<" ">>, "XII", <<" ">>, <<" ", "-", " ", SiteName>>),
     <<"-", " ", SiteName>>,
     <<SiteName>>,
     DecreeRef("123", "2023", <<" ">>, <<"II">>, <<"Korm">>, <<" ">>, <<>>),
     <<" ", "Közlemény", " ">>}

Bodies ==
    {<<>>, <<"szöveg">>, <<"a", " ", "törvények">>, <<"e", " ", "Rendelet">>}

Urls == {"https://njt.hu/jogszabaly/2023-12"}

PageInputs ==
    [h1 : {NoElem} \cup {Elem(t) : t \in HeadingTexts},
     h2 : {NoElem, Elem(<<>>), Elem(<<"Közlemény">>)},
     title_tag : {NoElem, Elem(<<>>), Elem(<<"Hirdetmény", " ", "-", " ", SiteName>>)},
     page_title : {<<>>, <<"Hirdetmény">>},
     body : Bodies,
     fail : FailurePoints]

ExtractDocumentData ==
    /\ arg.fn = "extract_document_data"
    /\ ret = NoRet
    /\ ret' = [fn |-> arg.fn, value |-> extract_document_data(arg.page, arg.url)]
    /\ UNCHANGED <<pmvars, runvars, retryvars, arg, extvars>>

ProcessDocumentData ==
    /\ arg.fn = "process_document_data"
    /\ ret = NoRet
    /\ ret' = [fn |-> arg.fn, value |-> process_document_data(arg.page, arg.url)]
    /\ UNCHANGED <<pmvars, runvars, retryvars, arg, extvars>>

\* ---- ChangeDetectionEngine.calculate_importance_level
\* ("sürgos" is written without the long vowel of the source's fourth term)
critical_terms == {"törvény", "alkotmány", "rendkívüli", "sürgos", "veszélyhelyzet"}

high_terms == {"rendelet", "határozat", "módosítás", "energia", "villamos"}

medium_terms == {"közlemény", "tájékoztató", "felhívás"}

\* the terms t with t in word.lower(), for the words of the sample titles
terms_in(word) ==
    CASE word = "Energia" -> {"energia"}
      [] word = "törvény" -> {"törvény"}
      [] word = "TÖRVÉNY" -> {"törvény"}
      [] word = "törvénymódosítás" -> {"törvény", "módosítás"}
      [] word = "Kormányrendelet" -> {"rendelet"}
      [] word = "Közlemény" -> {"közlemény"}
      [] word = "veszélyhelyzeti" -> {"veszélyhelyzet"}
      [] word = "tájékoztató" -> {"tájékoztató"}
      [] word = "hirdetmény" -> {}

TitleWords ==
    {"Energia", "törvény", "TÖRVÉNY", "törvénymódosítás", "Kormányrendelet",
     "Közlemény", "veszélyhelyzeti", "tájékoztató", "hirdetmény"}

\* any(term in title_lower for term in terms)
any_term(title, terms) ==
    \E i \in 1..Len(title) : terms_in(title[i]) \cap terms # {}

\* A plausible slip: the references are not capped.
reference_weight_uncapped(legal_references) == Len(legal_references)

\* min(len(publication.legal_references), 2)
reference_weight(legal_references) == Min(Len(legal_references), 2)

importance_score(publication) ==
    (IF any_term(publication.title, critical_terms) THEN 4 ELSE 0)
    + (IF any_term(publication.title, high_terms) THEN 2 ELSE 0)
    + (IF any_term(publication.title, medium_terms) THEN 1 ELSE 0)
    + reference_weight(publication.legal_references)

calculate_importance_level(publication) ==
    LET score == importance_score(publication)
    IN  IF score >= 4 THEN "critical"
        ELSE IF score >= 2 THEN "high"
        ELSE IF score >= 1 THEN "medium"
        ELSE "low"

SampleReference == "2007. évi LXXXVI. törvény"

ImportanceInputs ==
    [title : SeqsUpTo(TitleWords, MaxTitleWords),
     legal_references : SeqsUpTo({SampleReference}, MaxRefs)]

CalculateImportanceLevel ==
    /\ arg.fn = "calculate_importance_level"
    /\ ret = NoRet
    /\ ret' = [fn |-> arg.fn, value |-> calculate_importance_level(arg.publication)]
    /\ UNCHANGED <<pmvars, runvars, retryvars, arg, extvars>>

ValidateEliCompliance ==
    /\ arg.fn = "validate_eli_compliance"
    /\ ret = NoRet
    /\ ret' = [fn |-> arg.fn, value |-> validate_eli_compliance(arg.doc)]
    /\ UNCHANGED <<pmvars, runvars, retryvars, arg, extvars>>

FnInit ==
    /\ ProxyManagerInit
    /\ proxy_list = {}
    /\ CrawlerInit
    /\ RetryInit
    /\ ExtIdle
    /\ ret = NoRet
    /\ \/ \E d \in DocumentInputs :
             arg = [fn |-> "validate_eli_compliance", doc |-> d]
       \/ \E e \in EliInputs :
             arg = [fn |-> "to_uri", eli |-> e]
       \/ arg \in ReferenceInputs
       \/ \E stale \in ChangeTypes :
            \E cur \in PublicationLists("new"), prev \in PublicationLists(stale) :
              arg = [fn |-> "detect_changes", current |-> cur, previous |-> prev]
       \/ \E pub \in ImportanceInputs :
            arg = [fn |-> "calculate_importance_level", publication |-> pub]
       \/ \E f \in {"extract_document_data", "process_document_data"} :
            \E pg \in PageInputs, u \in Urls :
              arg = [fn |-> f, page |-> pg, url |-> u]

FnNext ==
    \/ ValidateEliCompliance
    \/ ToUri
    \/ FromNjtReference
    \/ DetectChanges
    \/ CalculateImportanceLevel
    \/ ExtractDocumentData
    \/ ProcessDocumentData

SpecFn == FnInit /\ [][FnNext]_vars

\* ------------------------------------------------------ MagyarKozlonyMonitor
\* Publications as _fetch_current_publications builds them: change_type and
\* importance_level hold the dataclass defaults
MonitorIds == {"mk1", "mk2"}

title_of(id) == IF id = "mk1" THEN <<"törvény">> ELSE <<"hirdetmény">>

FetchedItem(id, hash) ==
    [publication_id |-> id, content_hash |-> hash, change_type |-> "new",
     title |-> title_of(id), legal_references |-> <<>>,
     importance_level |-> "medium"]

\* the lists a fetch can return: distinct ids, the empty list included
\* (which is also what a failed fetch returns)
FetchLists ==
    {<<>>, <<FetchedItem("mk2", "h1")>>}
    \cup {<<FetchedItem("mk1", h)>> : h \in Hashes}
    \cup {<<FetchedItem("mk1", h), FetchedItem("mk2", "h1")>> : h \in Hashes}

\* importance_levels.get(level, 0)
importance_rank(level) ==
    CASE level = "low" -> 1
      [] level = "medium" -> 2
      [] level = "high" -> 3
      [] level = "critical" -> 4
      [] OTHER -> 0

\* NotificationManager._meets_importance_threshold
meets_importance_threshold(item_importance, threshold) ==
    importance_rank(item_importance) >= importance_rank(threshold)

\* _default_config()["notification_config"]
notification_config ==
    [type |-> "database", min_importance_level |-> "medium", recipients |-> <<>>]

RECURSIVE create_notifications(_, _, _)
\* NotificationManager.create_notifications: the notifications appended to
\* the queue, numbered from nid on
create_notifications(changes, nconfig, nid) ==
    IF changes = <<>> THEN <<>>
    ELSE IF ~meets_importance_threshold(changes[1].importance_level,
                                        nconfig.min_importance_level)
    THEN create_notifications(Tail(changes), nconfig, nid)
    ELSE <<[nid |-> nid, publication_id |-> changes[1].publication_id,
            sent |-> FALSE]>>
         \o create_notifications(Tail(changes), nconfig, nid + 1)

\* A plausible slip: the notification is marked sent before the outcome of
\* the send is known.
sent_after_attempt(send_ok) == TRUE

\* notification.sent = True is reached only when _send_notification returned
sent_after(send_ok) == send_ok

\* NotificationManager.send_notifications on queue q, where outcome[i] tells
\* whether the send of the i-th entry succeeds
send_notifications(q, outcome) ==
    LET attempted == {i \in 1..Len(q) : ~q[i].sent}
        marked == [i \in 1..Len(q) |->
                     IF i \in attempted
                     THEN [q[i] EXCEPT !.sent = sent_after(outcome[i])]
                     ELSE q[i]]
        unsent(n) == ~n.sent
    IN  [queue |-> SelectSeq(marked, unsent),
         sent_count |-> Cardinality({i \in attempted : marked[i].sent}),
         attempted |-> {q[i].nid : i \in attempted},
         succeeded |-> {q[i].nid : i \in {j \in attempted : outcome[j]}},
         failed |-> {q[i].nid : i \in {j \in attempted : ~outcome[j]}},
         already_sent |-> {n \in 1..MaxNotifs : sends[n] > 0}]

\* pub.change_type = ... acts on the objects of the current list
tagged_current(current, changes) ==
    [i \in 1..Len(current) |->
        IF \E c \in 1..Len(changes) :
              /\ changes[c].publication_id = current[i].publication_id
              /\ changes[c].change_type # "deleted"
        THEN [current[i] EXCEPT !.change_type =
                 (CHOOSE c \in {changes[k] : k \in 1..Len(changes)} :
                     c.publication_id = current[i].publication_id).change_type]
        ELSE current[i]]

\* check_publications with the list `fetched` and the send outcomes
\* `outcome`: the monitor's fields afterwards
check_publications(fetched, outcome) ==
    LET current ==
            [i \in 1..Len(fetched) |->
                [fetched[i] EXCEPT !.importance_level =
                    calculate_importance_level(fetched[i])]]
        changes == detect_changes(current, self_previous_publications)
        created == create_notifications(changes, notification_config, next_nid)
        sending == send_notifications(notification_queue \o created,
                                      outcome)
        seen == [seen_before |-> last_check.current_seen,
                 current_seen |-> current, changes |-> changes,
                 pending_before |-> Len(notification_queue)]
    IN  IF changes = <<>>
        THEN [previous |-> current, queue |-> notification_queue,
              nid |-> next_nid, send |-> last_send, sent_now |-> {},
              check |-> seen @@ [completed |-> TRUE, attempts |-> 0]]
        ELSE IF ~has_notification_config
        \* self.config["notification_config"] raises KeyError, which the
        \* except branch logs: return [] with the state as it was
        THEN [previous |-> self_previous_publications, queue |-> notification_queue,
              nid |-> next_nid, send |-> last_send, sent_now |-> {},
              check |-> seen @@ [completed |-> FALSE, attempts |-> 0]]
        ELSE [previous |-> tagged_current(current, changes),
              queue |-> sending.queue,
              nid |-> next_nid + Len(created),
              send |-> [ran |-> TRUE, attempted |-> sending.attempted,
                        succeeded |-> sending.succeeded,
                        failed |-> sending.failed,
                        already_sent |-> sending.already_sent,
                        returned |-> sending.sent_count],
              sent_now |-> sending.succeeded,
              check |-> seen @@ [completed |-> TRUE,
                                 attempts |-> Cardinality(sending.attempted)]]

\* the length of the queue that this check hands to send_notifications,
\* 0 when it does not call it
sends_pending(fetched) ==
    LET current ==
            [i \in 1..Len(fetched) |->
                [fetched[i] EXCEPT !.importance_level =
                    calculate_importance_level(fetched[i])]]
        changes == detect_changes(current, self_previous_publications)
    IN  IF changes = <<>> \/ ~has_notification_config THEN 0
        ELSE Len(notification_queue)
             + Len(create_notifications(changes, notification_config, next_nid))

\* A plausible slip: the loop does not test the flag.
loop_continues_always(active) == TRUE

\* while self.monitoring_active
loop_continues(active) == active

\* start_monitoring, entry: the flag is set and the first iteration begins
StartMonitoring ==
    /\ mpc = "not_started"
    /\ monitoring_active' = TRUE
    /\ mpc' = "checking"
    /\ checks' = checks + 1
    /\ UNCHANGED <<has_notification_config, self_previous_publications,
                   notification_queue, next_nid, sends, last_check, last_send,
                   stop_called, checks_begun_after_stop, iteration_errors>>

\* the rest of the try block of one iteration: check_publications, then the
\* interval is computed and the sleep begins; an exception there leads to
\* the except branch and its 5-minute sleep
FinishCheck ==
    /\ mpc = "checking"
    /\ \E fetched \in FetchLists, interval_ok \in BOOLEAN :
        \E outcome \in [1..sends_pending(fetched) -> BOOLEAN] :
          LET after == check_publications(fetched, outcome)
          IN  /\ self_previous_publications' = after.previous
              /\ notification_queue' = after.queue
              /\ next_nid' = after.nid
              /\ last_send' = after.send
              /\ last_check' = after.check
              /\ sends' = [n \in 1..MaxNotifs |->
                             IF n \in after.sent_now THEN sends[n] + 1 ELSE sends[n]]
              /\ mpc' = IF interval_ok THEN "sleeping" ELSE "error_sleep"
              /\ iteration_errors' =
                    IF interval_ok THEN iteration_errors ELSE iteration_errors + 1
    /\ UNCHANGED <<monitoring_active, has_notification_config, stop_called,
                   checks_begun_after_stop, checks>>

\* a sleep ends and the while condition is evaluated
WakeUp ==
    /\ mpc \in {"sleeping", "error_sleep"}
    /\ IF loop_continues(monitoring_active)
       THEN /\ checks < MaxChecks
            /\ mpc' = "checking"
            /\ checks' = checks + 1
            /\ checks_begun_after_stop' =
                  IF stop_called THEN checks_begun_after_stop + 1
                  ELSE checks_begun_after_stop
       ELSE /\ mpc' = "returned"
            /\ UNCHANGED <<checks, checks_begun_after_stop>>
    /\ UNCHANGED <<monitoring_active, has_notification_config,
                   self_previous_publications, notification_queue, next_nid, sends,
                   last_check, last_send, stop_called, iteration_errors>>

\* stop_monitoring, called by another task while the loop is suspended
StopMonitoring ==
    /\ mpc \in {"checking", "sleeping", "error_sleep"}
    /\ monitoring_active' = FALSE
    /\ stop_called' = TRUE
    /\ UNCHANGED <<mpc, has_notification_config, self_previous_publications,
                   notification_queue, next_nid, sends, last_check, last_send,
                   checks_begun_after_stop, iteration_errors, checks>>

\* a monitor built with the default configuration, or with a configuration
\* dictionary that has no "notification_config" entry
MonitorInit ==
    /\ ProxyManagerInit
    /\ proxy_list = {}
    /\ CrawlerInit
    /\ RetryInit
    /\ FnIdle
    /\ SessionIdle
    /\ PairInit
    /\ MonitorFields
    /\ has_notification_config \in BOOLEAN

MonitorNext ==
    /\ \/ StartMonitoring
       \/ FinishCheck
       \/ WakeUp
       \/ StopMonitoring
    /\ UNCHANGED <<pmvars, runvars, retryvars, fnvars, sessionvars, pairvars>>

SpecMonitor == MonitorInit /\ [][MonitorNext]_vars

\* ------------------------------------------------------------------ claims

\* C1: get_next_proxy returns none or a configured proxy outside the failed
\* set at the time of the call, and none exactly when no configured proxy is
\* outside the failed set; so a proxy marked failed is not returned until
\* a reset.
C1_NeverReturnsFailed ==
    last_call.op = "get" =>
        /\ (last_call.result = NoProxy) <=> (proxy_list \ failed_proxies = {})
        /\ last_call.result # NoProxy =>
              /\ last_call.result \in proxy_list
              /\ last_call.result \notin failed_proxies

\* A call made with a non-empty failed set that still returned a proxy.
C1_Witness ==
    /\ last_call.op = "get"
    /\ last_call.result # NoProxy
    /\ failed_proxies \cap proxy_list # {}

\* C2: when a fetch fails with a proxy-related error while a proxy is in
\* use, that proxy is in the failed set before the crawl restarts, and the
\* restarted crawl runs with a proxy different from the one just marked.
C2_RestartUsesDifferentProxy ==
    (pc = "r_try" /\ restarts > 0 /\ last_marked # NoProxy) =>
        /\ last_marked \in failed_proxies
        /\ session_proxy # NoProxy
        /\ session_proxy # last_marked

\* C3: within one crawl invocation the restarts caused by proxy-related
\* failures are capped at 3 proxy rotations.
C3_RestartsCapped ==
    restarts <= 3

\* C4: a run with more than 3 consecutive per-document failures is aborted
\* by an exception; it never continues past the fourth consecutive failure.
C4_AbortAfterConsecutiveFailures ==
    consecutive_failures > FailureThreshold =>
        /\ pc \in {"finally", "idle"}
        /\ exc # "none"

\* C5: a document that fails with a non-proxy error increments errors by
\* exactly one and emits no record.
C5_NonProxyFailureCounted ==
    [][(pc = "loop" /\ idx' = idx + 1 /\ last_outcome' = "error") =>
          /\ crawl_statistics'.errors = crawl_statistics.errors + 1
          /\ documents' = documents]_vars

\* C6: when navigation inside _process_document raises, no exception
\* reaches the loop (nothing is counted as an error), no record is returned
\* and crawl_statistics is left unchanged.
C6_ProcessDocumentSwallows ==
    [][(pc = "loop" /\ idx' = idx + 1
          /\ last_outcome' \in {"error", "proxy_error"}) =>
          /\ crawl_statistics' = crawl_statistics
          /\ documents' = documents]_vars

\* The loop went on after a document whose navigation raised.
C6_Witness ==
    /\ pc = "loop"
    /\ last_outcome \in {"error", "proxy_error"}
    /\ idx > 0
    /\ crawl_statistics.errors = 0

\* C7: a run over n links, k fetched successfully and n-k failed with
\* non-proxy errors, ends with documents_found = n, documents_processed = k,
\* errors = n-k and k records.
C7_RunTotals ==
    (pc = "idle" /\ result.kind = "returned" /\ runs = 1
        /\ Len(documents) + error_count = Len(document_links)) =>
        /\ crawl_statistics.documents_found = Len(document_links)
        /\ crawl_statistics.documents_processed = Len(documents)
        /\ crawl_statistics.errors = Len(document_links) - Len(documents)
        /\ Len(result.docs) = Len(documents)

\* C8: when navigation to the listing page fails, no document is processed
\* in that invocation and the invocation ends by raising to the caller.
C8_ListingFailureAborts ==
    listing = "failed" =>
        /\ pc \in {"finally", "idle"}
        /\ idx = 0
        /\ last_outcome = "none"
        /\ documents = <<>>
        /\ pc = "idle" => result.kind = "raised"

\* An invocation that ended by raising after its listing navigation failed.
C8_Witness ==
    /\ listing = "failed"
    /\ pc = "idle"
    /\ result.kind = "raised"
    /\ result.error = "list_fetch"

\* C9: after a run that was aborted partway through (after its listing was
\* fetched), the statistics hold the start_time and the end_time of that run.
C9_StatsAfterAbort ==
    (pc = "idle" /\ result.kind = "raised" /\ listing = "ok") =>
        /\ crawl_statistics.start_time # NoTime
        /\ crawl_statistics.end_time > crawl_statistics.start_time

\* C10: when a run is aborted after some documents were extracted, those
\* documents are still delivered to the caller.
C10_DocumentsSurviveAbort ==
    (pc = "idle" /\ result.kind = "raised" /\ documents # <<>>) =>
        result.docs = documents

\* C11: once cancellation is signalled the run exits cleanly: it returns
\* the statistics and the records accumulated so far.
C11_CancellationExitsCleanly ==
    (pc = "idle" /\ exc = "cancelled") =>
        /\ result.kind = "returned"
        /\ result.docs = documents

\* C12: at the end of every invocation, also a second one on the same
\* instance, documents_processed equals the number of records that
\* invocation emitted.
C12_StatsPerInvocation ==
    (pc = "idle" /\ result.kind = "returned") =>
        crawl_statistics.documents_processed = Len(result.docs)

RECURSIVE IsSubsequence(_, _)
IsSubsequence(a, b) ==
    IF a = <<>> THEN TRUE
    ELSE IF b = <<>> THEN FALSE
    ELSE IF Head(a) = Head(b) THEN IsSubsequence(Tail(a), Tail(b))
    ELSE IsSubsequence(a, Tail(b))

\* C13: the records of a run are in discovery order: their URLs form a
\* subsequence of the extracted link list, whatever documents succeed or fail.
C13_DiscoveryOrder ==
    /\ IsSubsequence(documents, document_links)
    /\ result.kind = "returned" => result.docs = documents

\* A returned run with two records around a failed document.
C13_Witness ==
    /\ pc = "idle"
    /\ result.kind = "returned"
    /\ result.docs = <<1, 3>>
    /\ Len(document_links) >= 3

\* C14: the proxy manager the crawler uses for its sessions offers the
\* reset: whenever it holds failed proxies, clearing them is possible.
C14_CrawlerManagerOffersReset ==
    failed_proxies # {} => ENABLED CrawlerResetFailed

\* C15: a crawler configured with a proxy list never runs a session without
\* a proxy; with every proxy failed the run ends instead.
C15_NoSessionWithoutProxy ==
    (pc = "r_try" /\ has_proxy_manager) => session_proxy # NoProxy

\* C20: an error raised by a step of the interaction break is swallowed:
\* it never reaches the crawl.
C20_InteractionErrorsSwallowed ==
    result.error # "interaction"

\* C16: validate_eli_compliance returns true exactly when eli_uri, title,
\* content and status are all present and non-empty and eli_uri has the
\* canonical prefix; otherwise it returns false.
C16_ValidateIff ==
    ret.fn = "validate_eli_compliance" =>
        (ret.value = TRUE <=>
            /\ \A f \in {"eli_uri", "title", "content", "status"} :
                  f \in DOMAIN arg.doc /\ arg.doc[f] # <<>>
            /\ arg.doc["eli_uri"] \in CanonicalUris)

\* A fully populated document with the URI of an unresolved identifier
\* was accepted.
C16_Witness ==
    /\ ret.fn = "validate_eli_compliance"
    /\ ret.value = TRUE
    /\ arg.doc["eli_uri"] = EliBase \o <<"hu", "", "0", "">>

C17_DetectChangesExact ==
    ret.fn = "detect_changes" =>
        LET changes == ret.value
            ids(l) == {l[i].publication_id : i \in 1..Len(l)}
            hash(l, k) ==
                LET last == CHOOSE i \in 1..Len(l) :
                                /\ l[i].publication_id = k
                                /\ \A j \in (i + 1)..Len(l) : l[j].publication_id # k
                IN  l[last].content_hash
            occurrences(k) == {i \in 1..Len(changes) : changes[i].publication_id = k}
            tags(k) == {changes[i].change_type : i \in occurrences(k)}
        IN  \A k \in PubIds :
              /\ Cardinality(occurrences(k)) <= 1
              /\ tags(k) =
                   IF k \in ids(arg.current) \ ids(arg.previous) THEN {"new"}
                   ELSE IF k \in ids(arg.previous) \ ids(arg.current) THEN {"deleted"}
                   ELSE IF /\ k \in ids(arg.current) \cap ids(arg.previous)
                           /\ hash(arg.current, k) # hash(arg.previous, k)
                        THEN {"modified"}
                   ELSE {}

\* One call on two lists of two publications reported three changes: a new,
\* a modified and a deleted publication, in that order.
C17_Witness ==
    /\ ret.fn = "detect_changes"
    /\ Len(arg.current) = 2
    /\ Len(arg.previous) = 2
    /\ Len(ret.value) = 3
    /\ ret.value[1].change_type = "new"
    /\ ret.value[2].change_type = "modified"
    /\ ret.value[3].change_type = "deleted"

\* C21: _extract_document_data returns a dictionary in which title, content,
\* document_type, issuer, status, subject_areas, citations and amendments
\* are all defined, whichever step failed; the fields not set before the
\* failure hold the placeholders (URL title, empty content, egyéb,
\* ismeretlen, empty lists).
C21_ExtractionAlwaysReturns ==
    ret.fn = "extract_document_data" =>
        LET data == ret.value
            f == arg.page.fail
            has_element == find_title_element(arg.page).present
            failed_before_title ==
                \/ f = "content"
                \/ f = "get_text" /\ has_element
                \/ f = "page_title" /\ ~has_element
            failed == failed_before_title \/ f \in {"body", "classify"}
        IN  /\ {"title", "content", "document_type", "issuer", "status",
                "subject_areas", "citations", "amendments"} \subseteq DOMAIN data
            /\ failed_before_title => data.title = <<"Document from", arg.url>>
            /\ (failed_before_title \/ f = "body") => data.content = <<>>
            /\ failed =>
                 /\ data.document_type = <<"egyéb">>
                 /\ data.issuer = <<"ismeretlen">>
                 /\ data.status = <<"ismeretlen">>
                 /\ data.subject_areas = <<>>
                 /\ data.citations = <<>>
                 /\ data.amendments = <<>>

\* An extraction that failed at the body text kept its title and filled
\* the rest with placeholders.
C21_Witness ==
    /\ ret.fn = "extract_document_data"
    /\ arg.page.fail = "body"
    /\ arg.page.body # <<>>
    /\ mentions(ret.value.title, LawBearing)
    /\ ret.value.content = <<>>
    /\ ret.value.status = <<"ismeretlen">>

\* C22: the extracted title is never empty, and a fetched page is never
\* dropped (None from _process_document) for lack of a title.
C22_TitleNeverEmpty ==
    /\ (ret.fn = "extract_document_data" /\ arg.page.fail = "none")
          => ret.value.title # <<>>
    /\ ret.fn = "process_document_data" => ret.value.kind = "record"

\* C30: every record of _process_document has an eli_uri with the canonical
\* prefix, and a record with non-empty title, content and status passes
\* validate_eli_compliance.
C30_RecordsHaveEliPrefix ==
    (ret.fn = "process_document_data" /\ ret.value.kind = "record") =>
        LET record == ret.value.record
        IN  /\ Len(record.eli_uri) > 4
            /\ SubSeq(record.eli_uri, 1, 4) = <<"http:", "", "www.njt.hu", "eli">>
            /\ (record.title # <<>> /\ record.content # <<>> /\ record.status # <<>>)
                  => validate_eli_compliance(record)

\* A record whose title matched no reference rule was emitted with the URI
\* of the zero-value identifier and passed validation.
C30_Witness ==
    /\ ret.fn = "process_document_data"
    /\ ret.value.kind = "record"
    /\ ret.value.record.eli_uri = <<"http:", "", "www.njt.hu", "eli", "hu", "", "0", "">>
    /\ ret.value.record.content # <<>>
    /\ validate_eli_compliance(ret.value.record)

\* C23: the importance score is 4 for a critical term in the title, plus 2
\* for a high term, plus 1 for a medium term, plus the number of legal
\* references capped at 2; the level is critical from 4, high for 2 and 3,
\* medium for 1 and low for 0.
C23_ImportanceBuckets ==
    ret.fn = "calculate_importance_level" =>
        LET words == {arg.publication.title[i] : i \in 1..Len(arg.publication.title)}
            critical == words \cap {"törvény", "TÖRVÉNY", "törvénymódosítás",
                                    "veszélyhelyzeti"} # {}
            high == words \cap {"Energia", "törvénymódosítás", "Kormányrendelet"} # {}
            medium == words \cap {"Közlemény", "tájékoztató"} # {}
            n == Len(arg.publication.legal_references)
            score == (IF critical THEN 4 ELSE 0) + (IF high THEN 2 ELSE 0)
                     + (IF medium THEN 1 ELSE 0) + (IF n < 2 THEN n ELSE 2)
        IN  /\ ret.value \in {"low", "medium", "high", "critical"}
            /\ ret.value = "critical" <=> score >= 4
            /\ ret.value = "high" <=> score \in {2, 3}
            /\ ret.value = "medium" <=> score = 1
            /\ ret.value = "low" <=> score = 0

\* A publication with a medium term only and three legal references was
\* rated high: the references counted for 2.
C23_Witness ==
    /\ ret.fn = "calculate_importance_level"
    /\ arg.publication.title = <<"Közlemény">>
    /\ Len(arg.publication.legal_references) = 3
    /\ ret.value = "high"

\* C25: when crawl_search_results has returned or raised after launching a
\* browser, the browser is closed and so is the context, if one was created.
C25_SessionClosedOnEveryPath ==
    (pc = "idle" /\ result.kind # "none" /\ browser # "none") =>
        /\ browser = "closed"
        /\ context \in {"none", "closed"}

\* C24: a call on one crawler instance leaves the other instance's failed
\* set, the proxies its get_next_proxy may return, and its statistics as
\* they were.
C24_InstancesIndependent ==
    [][\A i \in Instances : \A j \in Instances \ {i} :
          actor'.inst = i =>
             /\ heap_failed'[failed_cell(j)] = heap_failed[failed_cell(j)]
             /\ {p \in Proxies : p \notin heap_failed'[failed_cell(j)]}
                   = {p \in Proxies : p \notin heap_failed[failed_cell(j)]}
             /\ heap_stats'[stats_cell(j)] = heap_stats[stats_cell(j)]
             /\ inst_current'[j] = inst_current[j]]_vars

\* Both instances have marked different proxies failed and counted
\* different numbers of documents.
C24_Witness ==
    /\ heap_failed[failed_cell(1)] = {1}
    /\ heap_failed[failed_cell(2)] = {2, 3}
    /\ heap_stats[stats_cell(1)] = 2
    /\ heap_stats[stats_cell(2)] = 1
    /\ inst_current[2] = 1

\* C26: a check reports as new or modified no publication that had the same
\* id and content_hash in the previous check, reports as new only an id the
\* previous check did not have, and reports as deleted only an id the
\* previous check still had; so no change is reported by two checks.
C26_ChangesReportedOnce ==
    \A c \in 1..Len(last_check.changes) :
        LET change == last_check.changes[c]
            before == last_check.seen_before
            had_id == \E j \in 1..Len(before) :
                         before[j].publication_id = change.publication_id
            had_same == \E j \in 1..Len(before) :
                           /\ before[j].publication_id = change.publication_id
                           /\ before[j].content_hash = change.content_hash
        IN  /\ change.change_type \in {"new", "modified"} => ~had_same
            /\ change.change_type = "new" => ~had_id
            /\ change.change_type = "deleted" => had_id

\* C27: no notification is sent twice; send_notifications attempts only
\* notifications not yet sent, returns the number it sent, and leaves in the
\* queue exactly those whose send failed, none of them marked sent.
C27_NoDuplicateSends ==
    /\ \A n \in 1..MaxNotifs : sends[n] <= 1
    /\ last_send.ran =>
          /\ last_send.attempted \cap last_send.already_sent = {}
          /\ last_send.returned = Cardinality(last_send.succeeded)
          /\ {notification_queue[i].nid : i \in 1..Len(notification_queue)}
                = last_send.failed
          /\ \A i \in 1..Len(notification_queue) : ~notification_queue[i].sent
          /\ \A n \in last_send.succeeded : sends[n] = 1
          /\ \A n \in last_send.failed : sends[n] = 0

\* One send_notifications call delivered a notification that had failed in
\* an earlier cycle and failed to deliver a new one.
C27_Witness ==
    /\ last_send.ran
    /\ last_send.succeeded = {1}
    /\ last_send.failed = {2}
    /\ last_send.returned = 1
    /\ Len(notification_queue) = 1

\* C28: every completed check_publications cycle that began with a
\* notification waiting in the queue attempted to send it, whether or not
\* the cycle detected changes.
C28_PendingRetriedEveryCycle ==
    (last_check.completed /\ last_check.pending_before > 0)
        => last_check.attempts > 0

\* C29: no check_publications call begins after stop_monitoring(), and the
\* loop returns only because of it: an iteration that raised did not end it.
C29_StopEndsLoop ==
    /\ checks_begun_after_stop = 0
    /\ mpc = "returned" => stop_called
    /\ stop_called => ~monitoring_active

\* The loop went on after an iteration that raised, and returned after
\* stop_monitoring() without beginning another check.
C29_Witness ==
    /\ mpc = "returned"
    /\ stop_called
    /\ iteration_errors > 0
    /\ checks > iteration_errors

====
